---------------------------- MODULE Spec2Model ----------------------------
(***************************************************************************)
(* Cross-reactivity scoring engine of the allergen repository              *)
(* (src/cross_allergen.py, src/st_func.py).                                *)
(*                                                                         *)
(* Strings are sequences of one-character strings.  Identities and scores  *)
(* are floats of the form n / (100 * win) in the source; the model keeps   *)
(* the integer numerator n (unit 1/(100*win)), so that 1.0 is 100*win, the *)
(* epitope factor 0.8 is 80/100 and the bonus 0.1 is 10*win.  A threshold  *)
(* is given in hundredths (0.35 is 35) and compared after scaling by win.  *)
(***************************************************************************)
EXTENDS Integers, Sequences, FiniteSets, TLC

(***************************************************************************)
(* Bounds of the model.                                                    *)
(***************************************************************************)
MaxDb == 2
MaxJobs == 2
MaxResults == 3
MaxQueries == 2

(***************************************************************************)
(* Program constants.                                                      *)
(***************************************************************************)
exact6_bonus == 10
epitope_factor == 80
KmerLen == 8

Min2(a, b) == IF a <= b THEN a ELSE b
Max2(a, b) == IF a >= b THEN a ELSE b

(***************************************************************************)
(* Python string primitives.                                               *)
(***************************************************************************)
UpperChar(c) ==
    CASE c = "a" -> "A" [] c = "c" -> "C" [] c = "d" -> "D" [] c = "e" -> "E"
      [] c = "f" -> "F" [] c = "g" -> "G" [] c = "h" -> "H" [] c = "i" -> "I"
      [] c = "k" -> "K" [] c = "w" -> "W" [] c = "y" -> "Y"
      [] OTHER -> c

\* str.upper()
Upper(s) == [i \in 1..Len(s) |-> UpperChar(s[i])]

\* s[a:b] with Python's treatment of negative and out-of-range indices
PyIndex(k, n) == IF k < 0 THEN Max2(k + n, 0) ELSE Min2(k, n)

PySlice(s, a, b) ==
    LET lo == PyIndex(a, Len(s))
        hi == PyIndex(b, Len(s))
    IN  IF lo >= hi THEN << >> ELSE SubSeq(s, lo + 1, hi)

\* s[at:].startswith(sub), at is a 0-based offset
StartsAt(sub, s, at) ==
    /\ at >= 0
    /\ at + Len(sub) <= Len(s)
    /\ \A k \in 1..Len(sub) : s[at + k] = sub[k]

\* sub in s
Contains(sub, s) == \E at \in 0..(Len(s) - Len(sub)) : StartsAt(sub, s, at)

\* s.find(sub, start): lowest offset >= start where sub occurs, else -1
Find(sub, s, start) ==
    LET hits == {at \in start..(Len(s) - Len(sub)) : StartsAt(sub, s, at)}
    IN  IF hits = {} THEN -1 ELSE CHOOSE at \in hits : \A o \in hits : at <= o

\* s.split(sep) for a one-character separator: the list of fields
RECURSIVE SplitFrom(_, _, _, _)
SplitFrom(s, sep, k, cur) ==
    IF k > Len(s) THEN << cur >>
    ELSE IF s[k] = sep THEN << cur >> \o SplitFrom(s, sep, k + 1, << >>)
    ELSE SplitFrom(s, sep, k + 1, Append(cur, s[k]))

Split(s, sep) == SplitFrom(s, sep, 1, << >>)

(***************************************************************************)
(* edlib.align(query, target, mode='HW', task='distance')["editDistance"]: *)
(* the smallest Levenshtein distance between query and any substring of    *)
(* target (free start and end gaps in target).  No bound k is passed, so   *)
(* the library never reports -1 here.                                      *)
(***************************************************************************)
RECURSIVE EdRow(_, _, _, _)
EdRow(prev, qc, t, acc) ==
    IF Len(acc) = Len(t) + 1 THEN acc
    ELSE LET j == Len(acc)
             sub == prev[j] + (IF qc = t[j] THEN 0 ELSE 1)
             cell == Min2(Min2(prev[j + 1] + 1, acc[j] + 1), sub)
         IN  EdRow(prev, qc, t, Append(acc, cell))

RECURSIVE EdRows(_, _, _, _)
EdRows(q, t, i, prev) ==
    IF i > Len(q) THEN prev
    ELSE EdRows(q, t, i + 1, EdRow(prev, q[i], t, << i >>))

SeqMin(row) == CHOOSE m \in {row[k] : k \in 1..Len(row)} :
                   \A k \in 1..Len(row) : m <= row[k]

edlib_align(q, t) ==
    IF Len(q) = 0 \/ Len(t) = 0 THEN Len(q)
    ELSE SeqMin(EdRows(q, t, 1, [j \in 1..(Len(t) + 1) |-> 0]))

\* 1.0 - editDistance / win, in units of 1/(100*win)
Identity(ed, w) == 100 * (w - ed)

One(w) == 100 * w


(***************************************************************************)
(* Fixtures: residue strings, the epitope catalog (data/epitope_map.json)  *)
(* and the reference records the database is drawn from.                   *)
(***************************************************************************)
QueryA == << "A", "C", "D", "E", "F", "G", "H", "I", "K" >>
QueryB == << "a", "c", "d", "e", "f", "g", "h" >>

QueryPool == { QueryA, QueryB }

EpiHead == << "A", "C", "D", "E", "F", "G" >>
EpiTail == << "E", "F", "G", "H", "I", "K" >>

AccP1 == << "P", "1" >>
AccP2 == << "P", "2" >>

\* epitope_map.get(uniprot_id, [])
epitope_map_get(uniprot_id) ==
    CASE uniprot_id = AccP1 -> << EpiTail, EpiHead >>
      [] uniprot_id = AccP2 -> << EpiTail >>
      [] OTHER -> << >>

DescA1 == << "O", "S", "=", "a", " ", "O", "X", "=", "1" >>
DescA2 == << "x", " ", "O", "S", "=", " ", "a" >>
DescB == << "O", "S", "=", "b", " ", " ", "P", "E", "=", "1" >>
DescNone == << "x", " ", "y" >>

\* byte-identical to QueryA after upper-casing
RecSelf == [ id |-> << "s", "p", "|", "P", "0", "|", "S" >>,
             description |-> DescA1,
             seq |-> << "a", "c", "d", "e", "f", "g", "h", "i", "k" >> ]
\* contains the 8-mer ACDEFGHI; accession P1 lists an epitope of the window
RecHit == [ id |-> << "s", "p", "|", "P", "1", "|", "H" >>,
            description |-> DescA1,
            seq |-> << "W", "A", "C", "D", "E", "F", "G", "H", "I", "W" >> ]
\* same match, accession P2 lists only an epitope outside the window
RecHit2 == [ id |-> << "t", "r", "|", "P", "2", "|", "H" >>,
             description |-> DescA2,
             seq |-> << "a", "c", "d", "e", "f", "g", "h", "i", "w", "w" >> ]
\* one substitution in the middle, accession without a catalog entry
RecNear == [ id |-> << "s", "p", "|", "P", "3", "|", "N" >>,
             description |-> DescB,
             seq |-> << "A", "C", "D", "W", "F", "G", "H", "I", "K" >> ]
\* only the last window of QueryA matches exactly
RecLate == [ id |-> << "s", "p", "|", "P", "1", "|", "L" >>,
             description |-> DescB,
             seq |-> << "W", "W", "E", "F", "G", "H", "I", "K", "W" >> ]
\* shares no residue with the queries
RecFar == [ id |-> << "s", "p", "|", "P", "4", "|", "F" >>,
            description |-> DescNone,
            seq |-> << "Y", "Y", "Y" >> ]
\* identifier without a second '|'-separated field
RecBad == [ id |-> << "s", "e", "q", "1" >>,
            description |-> DescNone,
            seq |-> << "A", "C", "D", "E", "F", "G", "H", "I", "Y" >> ]

RecordPool == { RecSelf, RecHit, RecHit2, RecNear, RecLate, RecFar, RecBad }

WinSet == { 6, 10 }
ThreshSet == { 0, 35, 90 }

\* the inputs of the runs with a pool of several workers
ScanQueryPool == { QueryA }
ScanRecordPool == { RecSelf, RecHit, RecHit2, RecNear, RecBad }
ScanWinSet == { 6 }
ScanThreshSet == { 35, 90 }

None == [ kind |-> "None" ]
IndexError == [ kind |-> "IndexError" ]

(***************************************************************************)
(* sliding_window_identity_fast                                            *)
(***************************************************************************)
\* lines 24 and 99: range(len(s) - win + 1), the number of offsets scanned
\* variant: offset 0 is always scanned
ScanRange_atleast1(n, w) == Max2(n - w + 1, 1)

ScanRange(n, w) == n - w + 1

RECURSIVE FastLoop(_, _, _, _, _)
FastLoop(seq1, seq2, w, i, best) ==
    IF i >= ScanRange(Len(seq1), w) THEN best
    ELSE LET ed == edlib_align(PySlice(seq1, i, i + w), seq2)
         IN  IF ed = -1 THEN FastLoop(seq1, seq2, w, i + 1, best)
             ELSE LET identity == Identity(ed, w)
                      nbest == IF identity > best THEN identity ELSE best
                  IN  IF nbest = One(w) THEN nbest
                      ELSE FastLoop(seq1, seq2, w, i + 1, nbest)

sliding_window_identity_fast(seq1, seq2, w) == FastLoop(seq1, seq2, w, 0, 0)

(***************************************************************************)
(* has_exact8mer, count_substring_hits                                     *)
(***************************************************************************)
Kmers(s) == { PySlice(s, i, i + KmerLen) : i \in 0..(Len(s) - KmerLen) }

\* variant: the length-6 anchor of the other pipeline
has_exact8mer_six(seq1, seq2) ==
    \E mer \in { PySlice(seq1, i, i + 6) : i \in 0..(Len(seq1) - 6) } :
        Contains(mer, seq2)

has_exact8mer(seq1, seq2) == \E mer \in Kmers(seq1) : Contains(mer, seq2)

RECURSIVE CountFrom(_, _, _, _)
CountFrom(subseq, target_str, start, count) ==
    LET at == Find(subseq, target_str, start)
    IN  IF at = -1 THEN count
        ELSE CountFrom(subseq, target_str, at + 1, count + 1)

count_substring_hits(subseq, target_str) == CountFrom(subseq, target_str, 0, 0)

RECURSIVE SumHits(_, _)
SumHits(mers, target_str) ==
    IF mers = {} THEN 0
    ELSE LET mer == CHOOSE m \in mers : TRUE
         IN  count_substring_hits(mer, target_str)
               + SumHits(mers \ {mer}, target_str)

(***************************************************************************)
(* check_one_target                                                        *)
(***************************************************************************)
\* lines 97-109: the window scan, [best_identity, best_start]
RECURSIVE ScanLoop(_, _, _, _, _, _)
ScanLoop(query_str, target_str, w, i, best_identity, best_start) ==
    IF i >= ScanRange(Len(query_str), w)
    THEN [ best_identity |-> best_identity, best_start |-> best_start ]
    ELSE LET ed == edlib_align(PySlice(query_str, i, i + w), target_str)
         IN  IF ed = -1
             THEN ScanLoop(query_str, target_str, w, i + 1,
                           best_identity, best_start)
             ELSE LET identity == Identity(ed, w)
                      better == identity > best_identity
                      nbest == IF better THEN identity ELSE best_identity
                      nstart == IF better THEN i ELSE best_start
                  IN  IF nbest = One(w)
                      THEN [ best_identity |-> nbest, best_start |-> nstart ]
                      ELSE ScanLoop(query_str, target_str, w, i + 1,
                                    nbest, nstart)

WindowScan(query_str, target_str, w) ==
    ScanLoop(query_str, target_str, w, 0, 0, -1)

\* line 111: best_identity < id_thresh
\* variant: comparison reversed
BelowThreshold_flipped(best_identity, id_thresh, w) ==
    best_identity > id_thresh * w

BelowThreshold(best_identity, id_thresh, w) == best_identity < id_thresh * w

\* line 120: any(epitope in best_window_seq for epitope in epitope_list)
\* variant: only the first epitope of the list is tried
WindowContainsEpitope_first(best_window_seq, epitope_list) ==
    Len(epitope_list) >= 1 /\ Contains(epitope_list[1], best_window_seq)

WindowContainsEpitope(best_window_seq, epitope_list) ==
    \E k \in 1..Len(epitope_list) : Contains(epitope_list[k], best_window_seq)

\* lines 116-125
\* variant: the factor divides instead of multiplying
AdjustedIdentity_div(best_identity, local_enabled, window_contains_epitope) ==
    IF local_enabled
    THEN IF window_contains_epitope THEN best_identity
         ELSE (best_identity * 100) \div epitope_factor
    ELSE best_identity

\* variant: the epitope test is ignored
AdjustedIdentity_nopenalty(best_identity, local_enabled, window_contains_epitope) ==
    best_identity

AdjustedIdentity(best_identity, local_enabled, window_contains_epitope) ==
    IF local_enabled
    THEN IF window_contains_epitope THEN best_identity
         ELSE (best_identity * epitope_factor) \div 100
    ELSE best_identity

\* line 139
CompositeScore(adjusted_identity, exact6, w) ==
    adjusted_identity + (IF exact6 THEN exact6_bonus * w ELSE 0)

\* line 91: str(rec.seq).upper()
\* variant: no upper-casing
TargetStr_raw(rec) == rec.seq

TargetStr(rec) == Upper(rec.seq)

\* line 95: rec.id.split("|")[1] raises IndexError without a second field
HasAccession(rec_id) == Len(Split(rec_id, "|")) >= 2

Accession(rec_id) == Split(rec_id, "|")[2]

check_one_target(query_str, rec, w, id_thresh, local_enabled) ==
    LET target_str == TargetStr(rec)
    IN  IF target_str = query_str THEN None
        ELSE IF ~HasAccession(rec.id) THEN IndexError
        ELSE
          LET uniprot_id == Accession(rec.id)
              scan == WindowScan(query_str, target_str, w)
              best_identity == scan.best_identity
              best_start == scan.best_start
          IN  IF BelowThreshold(best_identity, id_thresh, w) THEN None
              ELSE
                LET best_window_seq ==
                        PySlice(query_str, best_start, best_start + w)
                    window_contains_epitope ==
                        IF local_enabled
                        THEN WindowContainsEpitope(best_window_seq,
                                 epitope_map_get(uniprot_id))
                        ELSE FALSE
                    adjusted_identity ==
                        AdjustedIdentity(best_identity, local_enabled,
                                         window_contains_epitope)
                    exact6 == has_exact8mer(query_str, target_str)
                IN  [ kind |-> "result",
                      id |-> rec.id,
                      description |-> rec.description,
                      identity |-> best_identity,
                      identity_adjusted |-> adjusted_identity,
                      has_6mer |-> exact6,
                      score |-> CompositeScore(adjusted_identity, exact6, w),
                      match_mode |-> IF local_enabled
                                     THEN "global_epitope_adjusted"
                                     ELSE "global_no_epitope",
                      window_contains_epitope |-> window_contains_epitope,
                      best_window_seq |-> best_window_seq,
                      window_hit_count |->
                          count_substring_hits(best_window_seq, target_str),
                      eightmer_hit_count |->
                          SumHits(Kmers(query_str), target_str) ]


(***************************************************************************)
(* extract_os: re.search(r'OS=([^=]+?)\s*(?:OX=|GN=|PE=|SV=|$)', d), then   *)
(* group(1).strip(), or "Unknown" without a match.  The leftmost start     *)
(* that matches wins and the lazy group takes the fewest characters that   *)
(* let the rest of the pattern match.  The only whitespace of the model's  *)
(* alphabet is the blank.                                                  *)
(***************************************************************************)
IsSpace(c) == c = " "

Terminators == { << "O", "X", "=" >>, << "G", "N", "=" >>,
                 << "P", "E", "=" >>, << "S", "V", "=" >> }

\* (?:OX=|GN=|PE=|SV=|$) at offset p
TermAt(d, p) ==
    \/ p = Len(d)
    \/ \E t \in Terminators : StartsAt(t, d, p)

\* \s*(?:...) at offset p
TailAt(d, p) ==
    \E k \in 0..(Len(d) - p) :
        /\ \A n \in 1..k : IsSpace(d[p + n])
        /\ TermAt(d, p + k)

\* lengths the group ([^=]+?) can take when it starts at offset g
GroupLens(d, g) ==
    { n \in 1..(Len(d) - g) :
        /\ \A m \in 1..n : d[g + m] # "="
        /\ TailAt(d, g + n) }

MatchStarts(d) ==
    { st \in 0..(Len(d) - 3) :
        /\ StartsAt(<< "O", "S", "=" >>, d, st)
        /\ GroupLens(d, st + 3) # {} }

SetMin(S) == CHOOSE m \in S : \A o \in S : m <= o

RECURSIVE LStrip(_)
LStrip(str) ==
    IF str # << >> /\ IsSpace(Head(str)) THEN LStrip(Tail(str)) ELSE str

RECURSIVE RStrip(_)
RStrip(str) ==
    IF str # << >> /\ IsSpace(str[Len(str)])
    THEN RStrip(SubSeq(str, 1, Len(str) - 1))
    ELSE str

Strip(str) == RStrip(LStrip(str))

Unknown == << "U", "n", "k", "n", "o", "w", "n" >>

extract_os(description) ==
    IF MatchStarts(description) = {} THEN Unknown
    ELSE LET g == SetMin(MatchStarts(description)) + 3
             n == SetMin(GroupLens(description, g))
         IN  Strip(SubSeq(description, g + 1, g + n))

(***************************************************************************)
(* dedup_by_os.  os_best is a dict: a sequence of [key, val] in insertion  *)
(* order; assigning to a key that is present keeps its position.           *)
(***************************************************************************)
DictHas(dict, key) == \E k \in 1..Len(dict) : dict[k].key = key

DictGet(dict, key) == dict[CHOOSE k \in 1..Len(dict) : dict[k].key = key].val

\* variant: a list of pairs instead of a dict, every assignment appends
DictSet_append(dict, key, val) == Append(dict, [ key |-> key, val |-> val ])

DictSet(dict, key, val) ==
    IF DictHas(dict, key)
    THEN [ k \in 1..Len(dict) |->
             IF dict[k].key = key THEN [ key |-> key, val |-> val ]
             ELSE dict[k] ]
    ELSE Append(dict, [ key |-> key, val |-> val ])

DictValues(dict) == [ k \in 1..Len(dict) |-> dict[k].val ]

\* line 186: r["score"] > os_best[os_name]["score"]
\* variant: comparison reversed
Beats_lower(r, kept) == r.score < kept.score

\* variant: a tie replaces the kept result
Beats_geq(r, kept) == r.score >= kept.score

Beats(r, kept) == r.score > kept.score

RECURSIVE DedupLoop(_, _, _)
DedupLoop(list, k, os_best) ==
    IF k > Len(list) THEN os_best
    ELSE LET r == list[k]
             os_name == extract_os(r.description)
         IN  IF ~DictHas(os_best, os_name) \/ Beats(r, DictGet(os_best, os_name))
             THEN DedupLoop(list, k + 1, DictSet(os_best, os_name, r))
             ELSE DedupLoop(list, k + 1, os_best)

dedup_by_os(list) == DictValues(DedupLoop(list, 1, << >>))

(***************************************************************************)
(* State.                                                                  *)
(*   check_cross_parallel: its arguments, the position of the pool's task  *)
(*   feeder, what each worker runs, the completed outcomes not yet taken   *)
(*   by the loop of line 170, and the list built at line 172.              *)
(***************************************************************************)
VARIABLES
    pc,             \* position of the caller
    query_seq,      \* query_seq.seq
    db_records,     \* the reference database
    win,
    id_thresh,
    local_enabled,
    n_jobs,
    next_task,      \* 1-based index of the next element of args_list
    running,        \* worker -> index of the task it runs, 0 when idle
    outq,           \* outcomes in completion order, not yet iterated
    results,        \* the list `results`
    dedup_in,       \* dedup_by_os: its argument
    dedup_out,      \* dedup_by_os: its return value
    variant,        \* "cli": predict_cross_allergen, "streamlit": its twin
    query_files,    \* the query records, in the order they are processed
    file_idx,       \* 1-based position of the loop over query_files
    all_results,    \* the list `all_results`
    report          \* the lines written to the report file

scanVars == << query_seq, db_records, win, id_thresh, local_enabled, n_jobs,
               next_task, running, outq, results >>

dedupVars == << dedup_in, dedup_out >>

reportVars == << variant, query_files, file_idx, all_results, report >>

vars == << pc, scanVars, dedupVars, reportVars >>

\* line 161
query_str == Upper(query_seq)

SeqsUpTo(S, n) == UNION { [1..k -> S] : k \in 0..n }

\* line 165: args_list[i]
Score(i) == check_one_target(query_str, db_records[i], win, id_thresh,
                             local_enabled)

\* line 171: if r
Truthy(r) == r.kind = "result"

\* line 172: results.append(r)
\* variant: the list is rebound instead of extended
AppendResult_overwrite(list, r) == << r >>

AppendResult(list, r) == Append(list, r)

\* variables of the operations a specification does not exercise
DedupIdle == dedup_in = << >> /\ dedup_out = << >>

ReportIdle ==
    /\ variant = "none"
    /\ query_files = << >>
    /\ file_idx = 0
    /\ all_results = << >>
    /\ report = << >>

PoolIdle ==
    /\ next_task = 0
    /\ running = << >>
    /\ outq = << >>
    /\ results = << >>

PoolStart ==
    /\ pc = "pool"
    /\ next_task = 1
    /\ running = [w \in 1..n_jobs |-> 0]
    /\ outq = << >>
    /\ results = << >>
    /\ DedupIdle
    /\ ReportIdle

\* check_cross_parallel with a pool of 1..MaxJobs workers
Init ==
    /\ query_seq \in ScanQueryPool
    /\ db_records \in SeqsUpTo(ScanRecordPool, MaxDb)
    /\ win \in ScanWinSet
    /\ id_thresh \in ScanThreshSet
    /\ local_enabled \in BOOLEAN
    /\ n_jobs \in 1..MaxJobs
    /\ PoolStart

\* check_cross_parallel with n_jobs=1 (as eval.py calls it), over all the
\* queries, records, window widths and thresholds
InitSeq ==
    /\ query_seq \in QueryPool
    /\ db_records \in SeqsUpTo(RecordPool, MaxDb)
    /\ win \in WinSet
    /\ id_thresh \in ThreshSet
    /\ local_enabled \in BOOLEAN
    /\ n_jobs = 1
    /\ PoolStart

\* an idle worker takes the next task of args_list
Dispatch(w) ==
    /\ pc = "pool"
    /\ running[w] = 0
    /\ next_task <= Len(db_records)
    /\ running' = [running EXCEPT ![w] = next_task]
    /\ next_task' = next_task + 1
    /\ UNCHANGED << pc, query_seq, db_records, win, id_thresh, local_enabled,
                    n_jobs, outq, results, dedupVars, reportVars >>

\* a worker finishes check_one_target and hands the outcome back
Complete(w) ==
    /\ pc = "pool"
    /\ running[w] # 0
    /\ outq' = Append(outq, [ idx |-> running[w], out |-> Score(running[w]) ])
    /\ running' = [running EXCEPT ![w] = 0]
    /\ UNCHANGED << pc, query_seq, db_records, win, id_thresh, local_enabled,
                    n_jobs, next_task, results, dedupVars, reportVars >>

\* one iteration of the loop of lines 170-172; an outcome that is an
\* exception is re-raised by the iterator and leaves the function
Collect ==
    /\ pc = "pool"
    /\ outq # << >>
    /\ LET r == Head(outq).out
       IN  IF r.kind = "IndexError"
           THEN /\ pc' = "raised"
                /\ UNCHANGED results
           ELSE /\ pc' = pc
                /\ results' = IF Truthy(r) THEN AppendResult(results, r)
                              ELSE results
    /\ outq' = Tail(outq)
    /\ UNCHANGED << query_seq, db_records, win, id_thresh, local_enabled,
                    n_jobs, next_task, running, dedupVars, reportVars >>

\* line 173: every element of args_list has been iterated
Return ==
    /\ pc = "pool"
    /\ next_task > Len(db_records)
    /\ \A w \in 1..n_jobs : running[w] = 0
    /\ outq = << >>
    /\ pc' = "done"
    /\ UNCHANGED << scanVars, dedupVars, reportVars >>

Next ==
    \/ \E w \in 1..n_jobs : Dispatch(w)
    \/ \E w \in 1..n_jobs : Complete(w)
    \/ Collect
    \/ Return

Spec == Init /\ [][Next]_vars

SpecSeq == InitSeq /\ [][Next]_vars

(***************************************************************************)
(* dedup_by_os applied to a list of results (specification SpecDedup).     *)
(***************************************************************************)
ResultPool ==
    { r \in { check_one_target(Upper(QueryA), rec, 6, 0, flag) :
                rec \in RecordPool, flag \in BOOLEAN } : r.kind = "result" }

InitDedup ==
    /\ pc = "dedup_call"
    /\ dedup_in \in SeqsUpTo(ResultPool, MaxResults)
    /\ dedup_out = << >>
    /\ query_seq = << >>
    /\ db_records = << >>
    /\ win = 6
    /\ id_thresh = 0
    /\ local_enabled = FALSE
    /\ n_jobs = 1
    /\ PoolIdle
    /\ ReportIdle

DedupCall ==
    /\ pc = "dedup_call"
    /\ dedup_out' = dedup_by_os(dedup_in)
    /\ pc' = "dedup_done"
    /\ UNCHANGED << scanVars, dedup_in, reportVars >>

NextDedup == DedupCall

SpecDedup == InitDedup /\ [][NextDedup]_vars

(***************************************************************************)
(* predict_cross_allergen (cross_allergen.py) and                          *)
(* predict_cross_allergen_streamlit (st_func.py): the loop over the query  *)
(* files and the report (specification SpecReport).  The call sites pass   *)
(* win=80 and id_thresh=0.35; the window is scaled to the length of the    *)
(* model's residue strings.  The pool completes the candidates of one      *)
(* query in any order.                                                     *)
(***************************************************************************)
CallThresh == 35

\* the reference records of the report runs
ReportRecordPool == { RecHit, RecHit2, RecNear, RecBad }

QueryFilePool ==
    { [ id |-> << "Q", "1" >>, seq |-> QueryA ],
      [ id |-> << "Q", "2" >>, seq |-> QueryB ],
      [ id |-> << "Q", "1", "0" >>, seq |-> QueryA ] }

\* code points of the characters of the query identifiers
Ord(c) == CASE c = "0" -> 48 [] c = "1" -> 49 [] c = "2" -> 50
            [] c = "Q" -> 81 [] OTHER -> 0

\* a < b for Python strings
RECURSIVE StrLess(_, _)
StrLess(a, b) ==
    IF b = << >> THEN FALSE
    ELSE IF a = << >> THEN TRUE
    ELSE IF Ord(Head(a)) # Ord(Head(b)) THEN Ord(Head(a)) < Ord(Head(b))
    ELSE StrLess(Tail(a), Tail(b))

\* lines 211 / st_func 137: results.sort(key=score, reverse=True)
ScoreDesc(a, b) == a.score > b.score

\* line 228: all_results.sort(key=lambda x: (x['query_id'], -x['score']))
QueryThenScore(a, b) ==
    \/ StrLess(a.query_id, b.query_id)
    \/ a.query_id = b.query_id /\ a.score > b.score

Before(a, b, key) ==
    IF key = "score" THEN ScoreDesc(a, b) ELSE QueryThenScore(a, b)

\* list.sort is stable: an element goes behind every element that does not
\* sort after it
RECURSIVE InsertSorted(_, _, _)
InsertSorted(list, r, key) ==
    IF list = << >> THEN << r >>
    ELSE IF Before(r, Head(list), key) THEN << r >> \o list
    ELSE << Head(list) >> \o InsertSorted(Tail(list), r, key)

RECURSIVE SortFrom(_, _, _, _)
SortFrom(list, k, acc, key) ==
    IF k > Len(list) THEN acc
    ELSE SortFrom(list, k + 1, InsertSorted(acc, list[k], key), key)

\* the list returned by check_cross_parallel when the candidates complete in
\* the order `order`, and whether an outcome raised
ScanOutcomes(qstr) ==
    [ i \in 1..Len(db_records) |->
        check_one_target(qstr, db_records[i], win, CallThresh,
                         local_enabled) ]

Reorder(outs, order) == [ k \in 1..Len(outs) |-> outs[order[k]] ]

Raises(outs) == \E k \in 1..Len(outs) : outs[k].kind = "IndexError"

RECURSIVE Kept(_, _)
Kept(outs, k) ==
    IF k > Len(outs) THEN << >>
    ELSE IF Truthy(outs[k]) THEN << outs[k] >> \o Kept(outs, k + 1)
    ELSE Kept(outs, k + 1)

Perms(n) == { f \in [1..n -> 1..n] : \A a, b \in 1..n : f[a] = f[b] => a = b }

\* lines 209-214: dedup, sort, tag
PerQuery(list, query_id) ==
    LET sorted == SortFrom(dedup_by_os(list), 1, << >>, "score")
    IN  [ k \in 1..Len(sorted) |->
            [ r |-> sorted[k], query_id |-> query_id,
              score |-> sorted[k].score ] ]

\* f"{x:.3f}" of a value x / (100 * win): thousandths, nearest
Fmt3(x, w) == (20 * x + w) \div (2 * w)

\* lines 230-242 / st_func 156-167
ReportLines(list) ==
    LET Block(k) ==
          (IF k = 1 \/ list[k].query_id # list[k - 1].query_id
           THEN << [ kind |-> "header", query |-> list[k].query_id ] >>
           ELSE << >>)
          \o << [ kind |-> "entry", i |-> k, id |-> list[k].r.id,
                  description |-> list[k].r.description,
                  identity |-> Fmt3(list[k].r.identity, win),
                  has_6mer |-> list[k].r.has_6mer,
                  score |-> Fmt3(list[k].score, win),
                  match_mode |-> list[k].r.match_mode ] >>
        Lines[k \in 0..Len(list)] ==
          IF k = 0 THEN << >> ELSE Lines[k - 1] \o Block(k)
    IN  Lines[Len(list)]

InitReport ==
    /\ pc = "loop"
    /\ variant \in { "cli", "streamlit" }
    /\ query_files \in SeqsUpTo(QueryFilePool, MaxQueries)
    /\ file_idx = 1
    /\ all_results = << >>
    /\ report = << >>
    /\ db_records \in SeqsUpTo(ReportRecordPool, MaxDb)
    /\ win \in WinSet
    /\ id_thresh = CallThresh
    /\ local_enabled \in BOOLEAN
    /\ n_jobs = 1
    /\ query_seq = << >>
    /\ PoolIdle
    /\ DedupIdle

\* one iteration of the loop over query_files
ProcessQuery ==
    /\ pc = "loop"
    /\ file_idx <= Len(query_files)
    /\ LET q == query_files[file_idx]
           outs == ScanOutcomes(Upper(q.seq))
       IN  \E order \in Perms(Len(db_records)) :
         LET list == Kept(Reorder(outs, order), 1)
         IN  IF Raises(outs)
             THEN /\ pc' = "raised"
                  /\ UNCHANGED << file_idx, all_results >>
             ELSE /\ pc' = pc
                  /\ file_idx' = file_idx + 1
                  /\ all_results' =
                       IF list # << >>
                       THEN all_results \o PerQuery(list, q.id)
                       ELSE all_results
    /\ UNCHANGED << scanVars, dedupVars, variant, query_files, report >>

\* lines 252-256 / st_func 171-175: item['id'] = item['id'].split('|')[1]
IdsToAccession(list) ==
    [ k \in 1..Len(list) |-> [ list[k] EXCEPT !.r.id = Accession(@) ] ]

\* after the loop: return without a report when nothing was found, else
\* (cli only) sort all_results, write the report, build the table
WriteReport ==
    /\ pc = "loop"
    /\ file_idx > Len(query_files)
    /\ IF all_results = << >>
       THEN /\ pc' = "empty"
            /\ UNCHANGED << all_results, report >>
       ELSE LET final == IF variant = "cli"
                         THEN SortFrom(all_results, 1, << >>, "query")
                         ELSE all_results
            IN  /\ all_results' = IdsToAccession(final)
                /\ report' = ReportLines(final)
                /\ pc' = "reported"
    /\ UNCHANGED << scanVars, dedupVars, variant, query_files, file_idx >>

NextReport == ProcessQuery \/ WriteReport

SpecReport == InitReport /\ [][NextReport]_vars


(***************************************************************************)
(* Properties of the scan (specifications Spec and SpecSeq).                *)
(***************************************************************************)
Count(list, v) == Cardinality({ k \in 1..Len(list) : list[k] = v })

\* the records of the database whose scoring yields a result
Reported(t) ==
    { i \in 1..Len(db_records) :
        check_one_target(query_str, db_records[i], win, t,
                         local_enabled).kind = "result" }

\* `results` holds exactly the results of the reported records
SameContent ==
    /\ \A k \in 1..Len(results) :
          \E i \in Reported(id_thresh) : results[k] = Score(i)
    /\ \A i \in Reported(id_thresh) :
          Count(results, Score(i))
            = Cardinality({ j \in Reported(id_thresh) : Score(j) = Score(i) })

\* C1: when scoring one record raises, the scan still completes: no
\* exception reaches the caller of check_cross_parallel and the results of
\* all other records are returned.
C1_FailureIsolated ==
    /\ pc # "raised"
    /\ pc = "done" => SameContent

\* C3: a record whose upper-cased residues equal the query string is scored
\* as None, and no returned result describes such a record (the identifiers
\* of the reference records are distinct).
C3_SelfMatchExcluded ==
    /\ \A k \in 1..Len(outq) :
          Upper(db_records[outq[k].idx].seq) = query_str
            => outq[k].out = None
    /\ \A k \in 1..Len(results) : \A i \in 1..Len(db_records) :
          Upper(db_records[i].seq) = query_str
            => results[k].id # db_records[i].id

C3_Witness ==
    /\ pc = "done"
    /\ results # << >>
    /\ \E i \in 1..Len(db_records) : Upper(db_records[i].seq) = query_str

\* C4: the content of the returned list is a function of the arguments
\* alone; the order in which the workers complete changes only its order.
C4_ContentIndependentOfOrder == pc = "done" => SameContent

C4_Witness ==
    /\ pc = "done"
    /\ Len(results) = 2
    /\ Len(db_records) = 2
    /\ results[1] = Score(2)
    /\ results[2] = Score(1)
    /\ Score(1) # Score(2)

\* C5: a run with threshold id_thresh returns at least as many results as
\* any larger threshold reports, and every record reported at the larger
\* threshold is among the returned results.
C5_ThresholdMonotone ==
    pc = "done" =>
      \A t2 \in ThreshSet :
        t2 >= id_thresh =>
          /\ Cardinality(Reported(t2)) <= Len(results)
          /\ \A i \in Reported(t2) :
                \E k \in 1..Len(results) : results[k].id = db_records[i].id

C5_Witness ==
    /\ pc = "done"
    /\ \E t2 \in ThreshSet :
          /\ t2 > id_thresh
          /\ Reported(t2) # {}
          /\ Cardinality(Reported(t2)) < Len(results)

\* C6: the best window identity of every scored candidate lies in [0, 1]
\* and the composite score of every result lies in [0, 1 + bonus].
C6_Ranges ==
    \A k \in 1..Len(outq) :
      LET target_str == Upper(db_records[outq[k].idx].seq)
          best == WindowScan(query_str, target_str, win).best_identity
          fast == sliding_window_identity_fast(query_str, target_str, win)
          r == outq[k].out
      IN  /\ 0 <= best /\ best <= 100 * win
          /\ 0 <= fast /\ fast <= 100 * win
          /\ r.kind = "result" =>
               /\ 0 <= r.identity /\ r.identity <= 100 * win
               /\ 0 <= r.score /\ r.score <= 100 * win + 10 * win

C6_Witness ==
    \E k \in 1..Len(outq) :
      /\ outq[k].out.kind = "result"
      /\ outq[k].out.identity = 100 * win
      /\ outq[k].out.score = 100 * win + 10 * win

\* C7: with a window wider than the query the scan examines no offset and
\* yields identity 0.0 (sliding_window_identity_fast and the scan of
\* check_one_target); a candidate that reaches the scan is then a
\* zero-identity candidate: None for a threshold > 0, never an exception.
\* (A record without an accession field raises at line 95, before the scan
\* and whatever the window width.)
C7_WindowWiderThanQuery ==
    win > Len(query_str) =>
      \A k \in 1..Len(outq) :
        LET rec == db_records[outq[k].idx]
            target_str == Upper(rec.seq)
            r == outq[k].out
        IN  /\ sliding_window_identity_fast(query_str, target_str, win) = 0
            /\ WindowScan(query_str, target_str, win)
                 = [ best_identity |-> 0, best_start |-> -1 ]
            /\ HasAccession(rec.id) =>
                 /\ r.kind # "IndexError"
                 /\ id_thresh > 0 => r = None
                 /\ r.kind = "result" => r.identity = 0

C7_Witness ==
    /\ win > Len(query_str)
    /\ id_thresh > 0
    /\ \E k \in 1..Len(outq) :
          /\ HasAccession(db_records[outq[k].idx].id)
          /\ Upper(db_records[outq[k].idx].seq) # query_str
          /\ outq[k].out = None

\* two scored candidates with the same best window, identity and exact
\* k-mer flag, the window containing a cataloged epitope of the first
\* candidate's accession and none of the second's
EpitopePair(a, b) ==
    /\ a.out.kind = "result"
    /\ b.out.kind = "result"
    /\ a.out.best_window_seq = b.out.best_window_seq
    /\ a.out.identity = b.out.identity
    /\ a.out.has_6mer = b.out.has_6mer
    /\ \E e \in { epitope_map_get(Accession(a.out.id))[n] :
                    n \in 1..Len(epitope_map_get(Accession(a.out.id))) } :
          Contains(e, a.out.best_window_seq)
    /\ \A e \in { epitope_map_get(Accession(b.out.id))[n] :
                    n \in 1..Len(epitope_map_get(Accession(b.out.id))) } :
          ~Contains(e, b.out.best_window_seq)

ScoreWithFlag(i, flag) ==
    check_one_target(query_str, db_records[i], win, id_thresh, flag).score

\* C8: for such a pair the composite scores differ strictly, the first
\* being higher, when the epitope flag is enabled, and are equal when it
\* is disabled.
C8_EpitopeAdjustment ==
    \A ka, kb \in 1..Len(outq) :
      EpitopePair(outq[ka], outq[kb]) =>
        /\ local_enabled => outq[ka].out.score > outq[kb].out.score
        /\ ~local_enabled => outq[ka].out.score = outq[kb].out.score
        /\ ScoreWithFlag(outq[ka].idx, TRUE) > ScoreWithFlag(outq[kb].idx, TRUE)
        /\ ScoreWithFlag(outq[ka].idx, FALSE)
             = ScoreWithFlag(outq[kb].idx, FALSE)

C8_Witness ==
    /\ local_enabled
    /\ \E ka, kb \in 1..Len(outq) :
          /\ EpitopePair(outq[ka], outq[kb])
          /\ outq[ka].out.window_contains_epitope
          /\ ~outq[kb].out.window_contains_epitope

Qualifies(i) ==
    LET target_str == Upper(db_records[i].seq)
    IN  /\ target_str # query_str
        /\ WindowScan(query_str, target_str, win).best_identity
              >= id_thresh * win

\* the tasks that are with a worker or wait in the iterator
InFlight(i) ==
    Cardinality({ w \in 1..n_jobs : running[w] = i })
      + Cardinality({ k \in 1..Len(outq) : outq[k].idx = i })

\* no record is handed to two workers or scored twice
ScoredOnce ==
    \A i \in 1..Len(db_records) :
      /\ InFlight(i) <= 1
      /\ i >= next_task => InFlight(i) = 0

\* `results` holds one result for every qualifying record and nothing else
OnePerQualifying ==
    /\ Len(results) = Cardinality({ i \in 1..Len(db_records) : Qualifies(i) })
    /\ \A k \in 1..Len(results) :
          \E i \in 1..Len(db_records) :
             Qualifies(i) /\ results[k].id = db_records[i].id
    /\ \A i \in 1..Len(db_records) :
          Qualifies(i) =>
            Cardinality({ k \in 1..Len(results) :
                            results[k].id = db_records[i].id })
              = Cardinality({ j \in 1..Len(db_records) :
                                db_records[j] = db_records[i] })

\* the part of C12 about the runs that return a list
ReturnedOnePerQualifying == ScoredOnce /\ (pc = "done" => OnePerQualifying)

\* C12: for every worker count and completion order check_cross_parallel
\* returns a list, and the list holds exactly one result for every record
\* that differs from the query and whose best window identity reaches the
\* threshold, and no other result; no record is scored twice.
C12_OnePerQualifyingRecord ==
    /\ ScoredOnce
    /\ pc # "pool" => (pc = "done" /\ OnePerQualifying)

\* lines 100-104 for one offset: the identity of the window that starts at i
WindowIdentity(target_str, i) ==
    Identity(edlib_align(PySlice(query_str, i, i + win), target_str), win)

Offsets == 0..(Len(query_str) - win)

MaxIdentity(target_str) ==
    CHOOSE m \in { WindowIdentity(target_str, i) : i \in Offsets } :
      \A i \in Offsets : WindowIdentity(target_str, i) <= m

\* the scan of lines 97-107 without the break of lines 108-109
RECURSIVE FullScan(_, _, _, _)
FullScan(target_str, i, best_identity, best_start) ==
    IF i \notin Offsets
    THEN [ best_identity |-> best_identity, best_start |-> best_start ]
    ELSE IF WindowIdentity(target_str, i) > best_identity
    THEN FullScan(target_str, i + 1, WindowIdentity(target_str, i), i)
    ELSE FullScan(target_str, i + 1, best_identity, best_start)

\* stopping at identity 1.0 reports what the scan of all offsets reports
EarlyExitHarmless ==
    \A k \in 1..Len(outq) :
      LET target_str == Upper(db_records[outq[k].idx].seq)
      IN  WindowScan(query_str, target_str, win)
            = FullScan(target_str, 0, 0, -1)

\* C13: when the scan has offsets, it records the maximum identity over all
\* offsets together with the smallest offset whose window has that
\* identity, and the break at identity 1.0 does not change the pair.
C13_FirstBestOffset ==
    \A k \in 1..Len(outq) :
      LET target_str == Upper(db_records[outq[k].idx].seq)
          scan == WindowScan(query_str, target_str, win)
      IN  Offsets # {} =>
            /\ scan.best_identity = MaxIdentity(target_str)
            /\ scan.best_start
                 = SetMin({ i \in Offsets :
                              WindowIdentity(target_str, i)
                                = MaxIdentity(target_str) })
            /\ scan = FullScan(target_str, 0, 0, -1)

\* the same statement for the scans whose maximum identity is above 0.0
FirstBestOffsetWhenPositive ==
    \A k \in 1..Len(outq) :
      LET target_str == Upper(db_records[outq[k].idx].seq)
          scan == WindowScan(query_str, target_str, win)
      IN  (Offsets # {} /\ MaxIdentity(target_str) > 0) =>
            /\ scan.best_identity = MaxIdentity(target_str)
            /\ scan.best_start
                 = SetMin({ i \in Offsets :
                              WindowIdentity(target_str, i)
                                = MaxIdentity(target_str) })

\* the epitopes the catalog lists for the accession of a record id
CatalogOf(rec_id) ==
    { epitope_map_get(Accession(rec_id))[n] :
        n \in 1..Len(epitope_map_get(Accession(rec_id))) }

\* e occurs in s as a run of consecutive characters
ExactSubstring(e, s) ==
    \E j \in 1..(Len(s) - Len(e) + 1) : SubSeq(s, j, j + Len(e) - 1) = e

\* identity * 0.8
Penalised(r) == r.identity_adjusted * 100 = r.identity * 80

\* C14: with the epitope flag a result keeps its best identity as adjusted
\* identity when its best window contains an epitope listed for the
\* accession of the record, and carries 0.8 times the best identity
\* otherwise; a record whose accession has no catalog entry is scored
\* without an error and, with the flag, with the penalty.  Without the flag
\* the adjusted identity is the best identity.
C14_AdjustedIdentity ==
    \A k \in 1..Len(outq) :
      LET rec == db_records[outq[k].idx]
          r == outq[k].out
      IN  /\ r.kind = "result" =>
               LET covered == \E e \in CatalogOf(rec.id) :
                                 ExactSubstring(e, r.best_window_seq)
               IN  /\ (local_enabled /\ covered) =>
                        r.identity_adjusted = r.identity
                   /\ (local_enabled /\ ~covered) => Penalised(r)
                   /\ ~local_enabled => r.identity_adjusted = r.identity
          /\ (HasAccession(rec.id) /\ CatalogOf(rec.id) = {}) =>
               /\ r.kind # "IndexError"
               /\ (r.kind = "result" /\ local_enabled) =>
                    Penalised(r) /\ ~r.window_contains_epitope

\* with the flag on, one result whose window contains the second epitope of
\* its accession and one result, of positive identity, whose accession has
\* no catalog entry
C14_Witness ==
    /\ local_enabled
    /\ \E ka, kb \in 1..Len(outq) :
          /\ outq[ka].out.kind = "result"
          /\ Len(epitope_map_get(Accession(outq[ka].out.id))) >= 2
          /\ ExactSubstring(epitope_map_get(Accession(outq[ka].out.id))[2],
                            outq[ka].out.best_window_seq)
          /\ outq[ka].out.identity_adjusted = outq[ka].out.identity
          /\ outq[kb].out.kind = "result"
          /\ CatalogOf(outq[kb].out.id) = {}
          /\ outq[kb].out.identity > 0
          /\ outq[kb].out.identity_adjusted < outq[kb].out.identity

\* the result r of a record carries the window of a scanned offset, of
\* width win, whose identity against the target is the reported identity
BestWindowScanned(r, target_str) ==
    \E st \in Offsets :
      /\ Len(r.best_window_seq) = win
      /\ r.best_window_seq = SubSeq(query_str, st + 1, st + win)
      /\ WindowIdentity(target_str, st) = r.identity

\* C16: every result of check_one_target, whatever the threshold (0
\* included), carries as best window the substring query[s : s+win] of a
\* scanned offset s in 0..len(query)-win whose identity against the target
\* is the reported raw identity.
C16_BestWindowIsScannedWindow ==
    \A k \in 1..Len(outq) :
      outq[k].out.kind = "result" =>
        BestWindowScanned(outq[k].out, Upper(db_records[outq[k].idx].seq))

\* the same statement for the thresholds above 0.0
BestWindowScannedWhenPositive ==
    id_thresh > 0 => C16_BestWindowIsScannedWindow


(***************************************************************************)
(* Properties of dedup_by_os (specification SpecDedup).                    *)
(***************************************************************************)
LabelOf(r) == extract_os(r.description)

\* C2: the output of dedup_by_os holds no two results with the same organism
\* label, one result for every label of the input, and each output result
\* carries the maximum score of the input results with its label.
C2_DedupInvariant ==
    pc = "dedup_done" =>
      /\ \A a, b \in 1..Len(dedup_out) :
            LabelOf(dedup_out[a]) = LabelOf(dedup_out[b]) => a = b
      /\ \A k \in 1..Len(dedup_in) :
            \E a \in 1..Len(dedup_out) :
               LabelOf(dedup_out[a]) = LabelOf(dedup_in[k])
      /\ \A a \in 1..Len(dedup_out) :
            /\ \E k \in 1..Len(dedup_in) :
                  /\ LabelOf(dedup_in[k]) = LabelOf(dedup_out[a])
                  /\ dedup_in[k].score = dedup_out[a].score
            /\ \A k \in 1..Len(dedup_in) :
                  LabelOf(dedup_in[k]) = LabelOf(dedup_out[a])
                    => dedup_in[k].score <= dedup_out[a].score

\* two labels survive, and for one of them a later, higher-scoring result
\* with another description replaced the first one
C2_Witness ==
    /\ pc = "dedup_done"
    /\ Len(dedup_in) = 3
    /\ Len(dedup_out) = 2
    /\ \E k \in 2..3 :
          /\ LabelOf(dedup_in[k]) = LabelOf(dedup_in[1])
          /\ dedup_in[k].description # dedup_in[1].description
          /\ dedup_in[k].score > dedup_in[1].score
          /\ dedup_out[1] = dedup_in[k]

\* the greatest score among the results of `list` with label l
MaxScoreOf(list, l) ==
    CHOOSE m \in { list[k].score : k \in 1..Len(list) } :
      /\ \E k \in 1..Len(list) : LabelOf(list[k]) = l /\ list[k].score = m
      /\ \A k \in 1..Len(list) : LabelOf(list[k]) = l => list[k].score <= m

\* the first position of `list` with label l and score m
FirstAt(list, l, m) ==
    SetMin({ k \in 1..Len(list) :
               LabelOf(list[k]) = l /\ list[k].score = m })

\* the result kept for label l in the output `out`
KeptFor(out, l) == out[CHOOSE a \in 1..Len(out) : LabelOf(out[a]) = l]

\* C11: the survivor of an organism label is the first result of the input
\* list that carries the label's maximum score; and at every position of
\* the input the kept result of the label changes only to a result of
\* strictly greater score.
C11_FirstOfTiesSurvives ==
    pc = "dedup_done" =>
      /\ \A a \in 1..Len(dedup_out) :
            LET l == LabelOf(dedup_out[a])
                m == MaxScoreOf(dedup_in, l)
            IN  dedup_out[a] = dedup_in[FirstAt(dedup_in, l, m)]
      /\ \A n \in 1..(Len(dedup_in) - 1) :
            LET before == dedup_by_os(SubSeq(dedup_in, 1, n))
                after == dedup_by_os(SubSeq(dedup_in, 1, n + 1))
                r == dedup_in[n + 1]
                l == LabelOf(r)
            IN  (\E a \in 1..Len(before) : LabelOf(before[a]) = l) =>
                  KeptFor(after, l) =
                    IF r.score > KeptFor(before, l).score THEN r
                    ELSE KeptFor(before, l)

\* two different results of one label tie for its maximum, a lower-scoring
\* result of the label comes before them, and the first of the two survives
C11_Witness ==
    /\ pc = "dedup_done"
    /\ Len(dedup_in) = 3
    /\ LabelOf(dedup_in[1]) = LabelOf(dedup_in[2])
    /\ LabelOf(dedup_in[2]) = LabelOf(dedup_in[3])
    /\ dedup_in[1].score < dedup_in[2].score
    /\ dedup_in[2].score = dedup_in[3].score
    /\ dedup_in[2] # dedup_in[3]
    /\ dedup_out = << dedup_in[2] >>

(***************************************************************************)
(* Properties of the scan followed by dedup_by_os, lines 206-210            *)
(* (specification Spec).                                                   *)
(***************************************************************************)
SetOf(list) == { list[k] : k \in 1..Len(list) }

\* the list check_cross_parallel returns when the candidates complete in the
\* order of the database
InOrder == Kept([ i \in 1..Len(db_records) |-> Score(i) ], 1)

LabelScores(list) == { << LabelOf(r), r.score >> : r \in SetOf(list) }

\* C15 as stated: dedup_by_os of the returned list has the same surviving
\* results whatever the order in which the workers completed.
C15_SameSurvivors ==
    pc = "done" =>
      SetOf(dedup_by_os(results)) = SetOf(dedup_by_os(InOrder))

\* C15 as amended: whatever the completion order, the survivors carry the
\* same organism labels with the same scores, one survivor per label with
\* the label's maximum score; the survivor of a label is the first
\* completed of the results that reach that maximum, hence the same record
\* in every order when a single result reaches it.
C15_SurvivorsUpToTies ==
    pc = "done" =>
      LET a == dedup_by_os(results)
          b == dedup_by_os(InOrder)
      IN  /\ LabelScores(a) = LabelScores(b)
          /\ Len(a) = Cardinality({ LabelOf(r) : r \in SetOf(results) })
          /\ \A x \in 1..Len(a) :
                LET l == LabelOf(a[x])
                    m == MaxScoreOf(results, l)
                IN  /\ a[x].score = m
                    /\ a[x] = results[FirstAt(results, l, m)]
                    /\ Cardinality({ r \in SetOf(results) :
                                       LabelOf(r) = l /\ r.score = m }) = 1
                          => a[x] \in SetOf(b)

\* two results of one organism tie, the second record completed first and
\* survives, where the database order keeps the first record
C15_Witness ==
    /\ pc = "done"
    /\ Len(results) = 2
    /\ results # InOrder
    /\ LabelOf(results[1]) = LabelOf(results[2])
    /\ results[1].score = results[2].score
    /\ dedup_by_os(results) = << results[1] >>
    /\ dedup_by_os(InOrder) = << results[2] >>

(***************************************************************************)
(* Properties of the report (specification SpecReport).                    *)
(***************************************************************************)
Headers == { k \in 1..Len(report) : report[k].kind = "header" }

\* C10: in the written report every query identifier has a single header
\* followed by all its results, the headers appear in ascending order of
\* query identifier, and the scores below one header do not increase.
C10_ReportGrouped ==
    pc = "reported" =>
      /\ \A h1, h2 \in Headers :
            h1 # h2 => report[h1].query # report[h2].query
      /\ \A h1, h2 \in Headers :
            h1 < h2 => StrLess(report[h1].query, report[h2].query)
      /\ \A k \in 1..(Len(report) - 1) :
            report[k].kind = "entry" /\ report[k + 1].kind = "entry"
              => report[k].score >= report[k + 1].score

=============================================================================
